---- MODULE Spec2Model ----
(***************************************************************************)
(* Model of the firefly telegram bot (src/src/main.rs, src/src/telegram.rs, *)
(* src/src/wit.rs): the webhook handler, the per-user onboarding state      *)
(* machine kept in the sled tree `users`, and the outbound calls.           *)
(*                                                                          *)
(* One handler is one run of handle_telegram_message.  hyper serves         *)
(* connections as independent tasks on the tokio runtime, so handlers       *)
(* interleave; every store call (contains_key, get, insert, remove) is one  *)
(* atomic step, and an action is one store call together with the local     *)
(* code and the outbound call that follow it up to the next store call.     *)
(***************************************************************************)
EXTENDS Integers, Sequences, FiniteSets, TLC

\* ------------------------------------------------------------------ bounds

\* Longest free text of an update, in characters.
MaxLen == 2

\* ------------------------------------------------------------------ values

\* Option<T>: None is the empty sequence, Some(x) the one-element sequence.
None == <<>>

Some(x) == <<x>>

IsSome(o) == o # <<>>

Unwrap(o) == o[1]

\* Telegram user ids of the senders.
Users == {1, 2}

\* The handler tasks that can be in flight together.
Handlers == {1, 2}

\* Characters of a free text: a white-space character and another one.
Chars == {" ", "a"}

RECURSIVE SeqsUpTo(_, _)
SeqsUpTo(S, n) ==
    IF n = 0 THEN {<<>>}
    ELSE LET shorter == SeqsUpTo(S, n - 1)
         IN shorter \cup {Append(s, c) : s \in {x \in shorter : Len(x) = n - 1}, c \in S}

\* The command words; a word is one symbol of a text.
CmdStartText == <<"/start">>

CmdResetText == <<"/reset">>

CmdHelpText == <<"/help">>

CmdTestText == <<"/test">>

Commands == {CmdStartText, CmdResetText, CmdHelpText, CmdTestText}

\* Texts near a command that are not the command: other letter case,
\* trailing white space.
NearCommands == {<<"/START">>, <<"/start", " ">>}

\* Message.text values of the updates.
Texts == Commands \cup NearCommands \cup SeqsUpTo(Chars, MaxLen)

IsSpace(c) == c = " "

RECURSIVE TrimStart(_)
TrimStart(s) ==
    IF s # <<>> /\ IsSpace(Head(s)) THEN TrimStart(Tail(s)) ELSE s

RECURSIVE TrimEnd(_)
TrimEnd(s) ==
    IF s # <<>> /\ IsSpace(s[Len(s)]) THEN TrimEnd(SubSeq(s, 1, Len(s) - 1)) ELSE s

\* Mutant of Trim: only leading white space is removed.
Trim_StartOnly(s) == TrimStart(s)

\* str::trim
Trim(s) == TrimEnd(TrimStart(s))

\* Update: message absent, or a message with optional text and sender.
Update(hasMessage, text, from) == [message |-> hasMessage, text |-> text, from |-> from]

\* The updates of the webhook: every text from the first sender; from the
\* second sender, whose record shows what a handler does to another key,
\* /start and /reset; and the updates that lack a part.
Updates ==
    {Update(TRUE, Some(x), Some(1)) : x \in Texts}
    \cup {Update(TRUE, Some(x), Some(2)) : x \in {CmdStartText, CmdResetText}}
    \cup {Update(FALSE, None, None), Update(TRUE, None, Some(1)),
          Update(TRUE, Some(CmdStartText), None)}

\* State::user_id: the store key of a sender.
user_id(from_id) == <<"telegram-user-", from_id>>

\* UserClue
UserClue(id, state, url, pat) ==
    [id |-> id, state |-> state, firefly_url |-> url, firefly_pat |-> pat]

\* UserClue::new
UserClueNew(id) == UserClue(id, "upload-url", <<>>, <<>>)

\* Mutant of is_ready: a record that has its URL counts as ready.
is_ready_AfterUrl(user) == user.state \in {"ready", "upload-pat"}

\* UserClue::is_ready
is_ready(user) == user.state = "ready"

\* ------------------------------------------------------------------- store

\* Tree::contains_key
contains_key(tree, key) == key \in DOMAIN tree

\* Tree::get
get(tree, key) == IF key \in DOMAIN tree THEN Some(tree[key]) ELSE None

\* Tree::insert
insert(tree, key, value) ==
    [k \in DOMAIN tree \cup {key} |-> IF k = key THEN value ELSE tree[k]]

\* Tree::remove
remove(tree, key) == [k \in DOMAIN tree \ {key} |-> tree[k]]

\* ---------------------------------------------------------------- outbound

\* Result<reqwest::Response, _>: a response with its status, or an error.
Ok(status) == [ok |-> TRUE, status |-> status, err |-> ""]

Err(msg) == [ok |-> FALSE, status |-> 0, err |-> msg]

\* What a call to the messaging platform or the ledger can return: 200,
\* another status, or a transport error; without faults, 200.
PostOutcomes(faults) == IF faults THEN {Ok(200), Ok(400), Err("transport")} ELSE {Ok(200)}

\* A store call succeeds or, with faults, fails with an I/O error.
StoreOutcomes(faults) == IF faults THEN {TRUE, FALSE} ELSE {TRUE}

\* The chat replies (the "text" of sendMessage).
Reply(text) == [text |-> text, arg |-> <<>>]

ReplyAlreadyStarted == Reply("Type /reset to reset your account.")

ReplyEnterUrl == Reply("Please enter your Firefly III server's URL")

ReplyResetComplete == Reply("Reset complete.")

ReplyTypeStart == Reply("Type /start to initiate the setup process.")

ReplyUsage == Reply("Send a message in the following format")

ReplyAck == Reply("Message Ack")

ReplyUrlSaved(url) == [text |-> "Your Firefly III URL's been saved!", arg |-> url]

ReplySetupComplete == Reply("Setup complete.")

ReplyCreated == Reply("Transaction created.")

ReplyGuidance == Reply("Type /help to check the proper way of creating a transaction.")

\* ------------------------------------------------------------------- state

VARIABLES
    db,      \* Database.users: store key -> UserClue
    tasks,   \* handler -> the state of its run of handle_telegram_message
    db0,     \* history: the store as it was when the last update arrived
    chain    \* history: the commands that the last answered updates were

vars == <<db, tasks, db0, chain>>

EmptyTree == [k \in {} |-> None]

\* A handler: its place (pc), its update, its copy of the sender's record
\* (user), the transaction it built (tx); and what it has done so far: the
\* calls it issued (typing, wit, ledger, writes, replies, reports), what the
\* NLU service answered (nlu), what process_message returned (result) and the
\* webhook response (response, 0 for none).
IdleTask ==
    [pc |-> "idle", upd |-> Update(FALSE, None, None), user |-> None, tx |-> None,
     nlu |-> "",
     typing |-> 0, wit |-> 0, ledger |-> 0, writes |-> 0, replies |-> <<>>,
     result |-> None, reports |-> 0, response |-> 0]

\* text_payload and State.from_id of a handler past the payload checks.
Payload(t) == Unwrap(t.upd.text)

FromId(t) == Unwrap(t.upd.from)

\* TelegramContext::get_user_id
get_user_id(t) == user_id(FromId(t))

NoChain == [from |-> 0, cmds |-> <<>>]

Init ==
    /\ db = EmptyTree
    /\ tasks = [h \in Handlers |-> IdleTask]
    /\ db0 = EmptyTree
    /\ chain = NoChain

\* The handler returns `res` from process_message.
Return(t, res) == [t EXCEPT !.pc = "respond", !.result = Some(res)]

\* sendMessage with `reply`, whose result `out` is what the command returns.
SendMessage(t, reply, out) ==
    Return([t EXCEPT !.replies = Append(@, reply)], out)

\* A new update is taken by the lowest idle handler.
Receive(h, upd) ==
    /\ tasks[h].pc = "idle"
    /\ \A g \in Handlers : g < h => tasks[g].pc # "idle"
    /\ tasks' = [tasks EXCEPT ![h] = [IdleTask EXCEPT !.pc = "process", !.upd = upd]]
    /\ db0' = db
    /\ UNCHANGED <<db, chain>>

\* Mutant of ProcessMessage: the typing indicator is sent before the payload
\* checks.
ProcessMessage_TypingFirst(h, out) ==
    LET t == [tasks[h] EXCEPT !.typing = @ + 1] IN
    /\ t.pc = "process"
    /\ tasks' = [tasks EXCEPT ![h] =
         IF ~out.ok THEN Return(t, out)
         ELSE IF ~t.upd.message THEN Return(t, Err("No message"))
         ELSE IF ~IsSome(t.upd.text) THEN Return(t, Err("Empty text payload"))
         ELSE IF ~IsSome(t.upd.from) THEN Return(t, Err("No user from included in payload"))
         ELSE [t EXCEPT !.pc = "dispatch"]]
    /\ UNCHANGED <<db, db0, chain>>

\* process_message up to the command match: the payload checks, the typing
\* indicator and the sleep.
ProcessMessage(h, out) ==
    LET t == tasks[h] IN
    /\ t.pc = "process"
    /\ tasks' = [tasks EXCEPT ![h] =
         IF ~t.upd.message THEN Return(t, Err("No message"))
         ELSE IF ~IsSome(t.upd.text) THEN Return(t, Err("Empty text payload"))
         ELSE IF ~IsSome(t.upd.from) THEN Return(t, Err("No user from included in payload"))
         ELSE IF ~out.ok THEN Return([t EXCEPT !.typing = @ + 1], out)
         ELSE [t EXCEPT !.typing = @ + 1, !.pc = "dispatch"]]
    /\ UNCHANGED <<db, db0, chain>>

\* Mutant of CmdStart: the record is created without the look for an
\* existing one.
CmdStart_NoCheck(h, stored, out) ==
    LET t == tasks[h] IN
    /\ t.pc = "dispatch"
    /\ Payload(t) = CmdStartText
    /\ tasks' = [tasks EXCEPT ![h] =
         IF ~stored THEN Return(t, Err("store")) ELSE [t EXCEPT !.pc = "start_insert"]]
    /\ UNCHANGED <<db, db0, chain>>

\* Mutant of CmdStart: the text is matched after trimming, so "/start " is
\* taken for the command.
CmdStart_Trimmed(h, stored, out) ==
    LET t == tasks[h] IN
    /\ t.pc = "dispatch"
    /\ Trim(Payload(t)) = CmdStartText
    /\ tasks' = [tasks EXCEPT ![h] =
         IF ~stored THEN Return(t, Err("store"))
         ELSE IF contains_key(db, get_user_id(t)) THEN SendMessage(t, ReplyAlreadyStarted, out)
         ELSE [t EXCEPT !.pc = "start_insert"]]
    /\ UNCHANGED <<db, db0, chain>>

\* cmd_start: contains_key, and the reply when the record exists.
CmdStart(h, stored, out) ==
    LET t == tasks[h] IN
    /\ t.pc = "dispatch"
    /\ Payload(t) = CmdStartText
    /\ tasks' = [tasks EXCEPT ![h] =
         IF ~stored THEN Return(t, Err("store"))
         ELSE IF contains_key(db, get_user_id(t)) THEN SendMessage(t, ReplyAlreadyStarted, out)
         ELSE [t EXCEPT !.pc = "start_insert"]]
    /\ UNCHANGED <<db, db0, chain>>

\* cmd_start: insert of the new record, and the prompt for the URL.
CmdStartInsert(h, stored, out) ==
    LET t == tasks[h] IN
    /\ t.pc = "start_insert"
    /\ IF ~stored
       THEN /\ tasks' = [tasks EXCEPT ![h] = Return(t, Err("store"))]
            /\ UNCHANGED <<db, db0, chain>>
       ELSE /\ UNCHANGED <<db0, chain>>
            /\ db' = insert(db, get_user_id(t), UserClueNew(FromId(t)))
            /\ tasks' = [tasks EXCEPT ![h] =
                 SendMessage([t EXCEPT !.writes = @ + 1], ReplyEnterUrl, out)]

\* Mutant of CmdReset: the confirmation is sent and the record is kept.
CmdReset_KeepsRecord(h, stored, out) ==
    LET t == tasks[h] IN
    /\ t.pc = "dispatch"
    /\ Payload(t) = CmdResetText
    /\ tasks' = [tasks EXCEPT ![h] =
         IF ~stored THEN Return(t, Err("store")) ELSE SendMessage(t, ReplyResetComplete, out)]
    /\ UNCHANGED <<db, db0, chain>>

\* Mutant of CmdReset: the record is sent back to the URL step with its URL
\* and token kept, not removed.
CmdReset_Soft(h, stored, out) ==
    LET t == tasks[h]
        key == get_user_id(t)
    IN
    /\ t.pc = "dispatch"
    /\ Payload(t) = CmdResetText
    /\ IF ~stored
       THEN /\ tasks' = [tasks EXCEPT ![h] = Return(t, Err("store"))]
            /\ UNCHANGED <<db, db0, chain>>
       ELSE /\ UNCHANGED <<db0, chain>>
            /\ db' = IF key \in DOMAIN db
                     THEN insert(db, key, [db[key] EXCEPT !.state = "upload-url"])
                     ELSE db
            /\ tasks' = [tasks EXCEPT ![h] =
                 SendMessage([t EXCEPT !.writes = @ + 1], ReplyResetComplete, out)]

\* cmd_reset
CmdReset(h, stored, out) ==
    LET t == tasks[h] IN
    /\ t.pc = "dispatch"
    /\ Payload(t) = CmdResetText
    /\ IF ~stored
       THEN /\ tasks' = [tasks EXCEPT ![h] = Return(t, Err("store"))]
            /\ UNCHANGED <<db, db0, chain>>
       ELSE /\ UNCHANGED <<db0, chain>>
            /\ db' = remove(db, get_user_id(t))
            /\ tasks' = [tasks EXCEPT ![h] =
                 SendMessage([t EXCEPT !.writes = @ + 1], ReplyResetComplete, out)]

\* Mutant of CmdHelp: the setup instructions are sent until the setup is
\* complete, not only when there is no record.
CmdHelp_SetupUntilReady(h, stored, out) ==
    LET t == tasks[h]
        exist == get(db, get_user_id(t))
    IN
    /\ t.pc = "dispatch"
    /\ Payload(t) = CmdHelpText
    /\ tasks' = [tasks EXCEPT ![h] =
         IF ~stored THEN Return(t, Err("store"))
         ELSE IF ~IsSome(exist) \/ ~is_ready(Unwrap(exist)) THEN SendMessage(t, ReplyTypeStart, out)
         ELSE SendMessage(t, ReplyUsage, out)]
    /\ UNCHANGED <<db, db0, chain>>

\* cmd_help
CmdHelp(h, stored, out) ==
    LET t == tasks[h] IN
    /\ t.pc = "dispatch"
    /\ Payload(t) = CmdHelpText
    /\ tasks' = [tasks EXCEPT ![h] =
         IF ~stored THEN Return(t, Err("store"))
         ELSE IF ~contains_key(db, get_user_id(t)) THEN SendMessage(t, ReplyTypeStart, out)
         ELSE SendMessage(t, ReplyUsage, out)]
    /\ UNCHANGED <<db, db0, chain>>

\* cmd_test
CmdTest(h, out) ==
    LET t == tasks[h] IN
    /\ t.pc = "dispatch"
    /\ Payload(t) = CmdTestText
    /\ tasks' = [tasks EXCEPT ![h] = SendMessage(t, ReplyAck, out)]
    /\ UNCHANGED <<db, db0, chain>>

\* Mutant of CmdTransact: a free text of a sender without a record starts
\* the setup as /start does.
CmdTransact_AutoStart(h, stored, out) ==
    LET t == tasks[h]
        exist == get(db, get_user_id(t))
    IN
    /\ t.pc = "dispatch"
    /\ Payload(t) \notin Commands
    /\ tasks' = [tasks EXCEPT ![h] =
         IF ~stored THEN Return(t, Err("store"))
         ELSE IF ~IsSome(exist) THEN SendMessage([t EXCEPT !.writes = @ + 1], ReplyEnterUrl, out)
         ELSE IF is_ready(Unwrap(exist)) THEN [t EXCEPT !.pc = "transact", !.user = exist]
         ELSE IF Unwrap(exist).state = "upload-url" THEN [t EXCEPT !.pc = "upload_url"]
         ELSE IF Unwrap(exist).state = "upload-pat" THEN [t EXCEPT !.pc = "upload_pat"]
         ELSE Return(t, Err("Unknown user state"))]
    /\ db' = IF stored /\ ~IsSome(exist)
             THEN insert(db, get_user_id(t), UserClueNew(FromId(t)))
             ELSE db
    /\ UNCHANGED <<db0, chain>>

\* Mutant of CmdTransact: a record in a state that is none of the known ones
\* is taken to be at the URL step.
CmdTransact_GuessUrl(h, stored, out) ==
    LET t == tasks[h]
        exist == get(db, get_user_id(t))
    IN
    /\ t.pc = "dispatch"
    /\ Payload(t) \notin Commands
    /\ tasks' = [tasks EXCEPT ![h] =
         IF ~stored THEN Return(t, Err("store"))
         ELSE IF ~IsSome(exist) THEN SendMessage(t, ReplyTypeStart, out)
         ELSE IF is_ready(Unwrap(exist)) THEN [t EXCEPT !.pc = "transact", !.user = exist]
         ELSE IF Unwrap(exist).state = "upload-pat" THEN [t EXCEPT !.pc = "upload_pat"]
         ELSE [t EXCEPT !.pc = "upload_url"]]
    /\ UNCHANGED <<db, db0, chain>>

\* cmd_transact: the read of the sender's record and the choice of the step.
CmdTransact(h, stored, out) ==
    LET t == tasks[h]
        exist == get(db, get_user_id(t))
    IN
    /\ t.pc = "dispatch"
    /\ Payload(t) \notin Commands
    /\ tasks' = [tasks EXCEPT ![h] =
         IF ~stored THEN Return(t, Err("store"))
         ELSE IF ~IsSome(exist) THEN SendMessage(t, ReplyTypeStart, out)
         ELSE IF is_ready(Unwrap(exist)) THEN [t EXCEPT !.pc = "transact", !.user = exist]
         ELSE IF Unwrap(exist).state = "upload-url" THEN [t EXCEPT !.pc = "upload_url"]
         ELSE IF Unwrap(exist).state = "upload-pat" THEN [t EXCEPT !.pc = "upload_pat"]
         ELSE Return(t, Err("Unknown user state"))]
    /\ UNCHANGED <<db, db0, chain>>

\* Mutant of UploadUrlGet: the state written is a string that cmd_transact
\* does not know.
UploadUrlGet_WrongState(h, stored) ==
    LET t == tasks[h]
        exist == get(db, get_user_id(t))
    IN
    /\ t.pc = "upload_url"
    /\ tasks' = [tasks EXCEPT ![h] =
         IF ~stored THEN Return(t, Err("store"))
         ELSE IF ~IsSome(exist) THEN Return(t, Err("Cannot find the user in the database"))
         ELSE [t EXCEPT !.pc = "upload_url_insert",
                        !.user = Some([Unwrap(exist) EXCEPT !.firefly_url = Trim(Payload(t)),
                                                            !.state = "upload-token"])]]
    /\ UNCHANGED <<db, db0, chain>>

\* upload_url: the second read of the record and the change of the copy.
UploadUrlGet(h, stored) ==
    LET t == tasks[h]
        exist == get(db, get_user_id(t))
    IN
    /\ t.pc = "upload_url"
    /\ tasks' = [tasks EXCEPT ![h] =
         IF ~stored THEN Return(t, Err("store"))
         ELSE IF ~IsSome(exist) THEN Return(t, Err("Cannot find the user in the database"))
         ELSE [t EXCEPT !.pc = "upload_url_insert",
                        !.user = Some([Unwrap(exist) EXCEPT !.firefly_url = Trim(Payload(t)),
                                                            !.state = "upload-pat"])]]
    /\ UNCHANGED <<db, db0, chain>>

\* Mutant of UploadUrlInsert: a failed insert has written the record.
UploadUrlInsert_PartialWrite(h, stored, out) ==
    LET t == tasks[h] IN
    /\ t.pc = "upload_url_insert"
    /\ db' = insert(db, get_user_id(t), Unwrap(t.user))
    /\ tasks' = [tasks EXCEPT ![h] =
         IF ~stored THEN Return(t, Err("store"))
         ELSE SendMessage([t EXCEPT !.writes = @ + 1], ReplyUrlSaved(Trim(Payload(t))), out)]
    /\ UNCHANGED <<db0, chain>>

\* upload_url: the write of the changed copy and the prompt for the token.
UploadUrlInsert(h, stored, out) ==
    LET t == tasks[h] IN
    /\ t.pc = "upload_url_insert"
    /\ IF ~stored
       THEN /\ tasks' = [tasks EXCEPT ![h] = Return(t, Err("store"))]
            /\ UNCHANGED <<db, db0, chain>>
       ELSE /\ UNCHANGED <<db0, chain>>
            /\ db' = insert(db, get_user_id(t), Unwrap(t.user))
            /\ tasks' = [tasks EXCEPT ![h] =
                 SendMessage([t EXCEPT !.writes = @ + 1],
                             ReplyUrlSaved(Trim(Payload(t))), out)]

\* Mutant of UploadPatGet: the record is built anew around the token, and
\* the URL of the stored one is lost.
UploadPatGet_FreshRecord(h, stored) ==
    LET t == tasks[h]
        exist == get(db, get_user_id(t))
    IN
    /\ t.pc = "upload_pat"
    /\ tasks' = [tasks EXCEPT ![h] =
         IF ~stored THEN Return(t, Err("store"))
         ELSE IF ~IsSome(exist) THEN Return(t, Err("Cannot find the user in the database"))
         ELSE [t EXCEPT !.pc = "upload_pat_insert",
                        !.user = Some(UserClue(FromId(t), "ready", <<>>, Trim(Payload(t))))]]
    /\ UNCHANGED <<db, db0, chain>>

\* upload_pat: the second read of the record and the change of the copy.
UploadPatGet(h, stored) ==
    LET t == tasks[h]
        exist == get(db, get_user_id(t))
    IN
    /\ t.pc = "upload_pat"
    /\ tasks' = [tasks EXCEPT ![h] =
         IF ~stored THEN Return(t, Err("store"))
         ELSE IF ~IsSome(exist) THEN Return(t, Err("Cannot find the user in the database"))
         ELSE [t EXCEPT !.pc = "upload_pat_insert",
                        !.user = Some([Unwrap(exist) EXCEPT !.firefly_pat = Trim(Payload(t)),
                                                            !.state = "ready"])]]
    /\ UNCHANGED <<db, db0, chain>>

\* upload_pat: the write of the changed copy and the setup-complete reply.
UploadPatInsert(h, stored, out) ==
    LET t == tasks[h] IN
    /\ t.pc = "upload_pat_insert"
    /\ IF ~stored
       THEN /\ tasks' = [tasks EXCEPT ![h] = Return(t, Err("store"))]
            /\ UNCHANGED <<db, db0, chain>>
       ELSE /\ UNCHANGED <<db0, chain>>
            /\ db' = insert(db, get_user_id(t), Unwrap(t.user))
            /\ tasks' = [tasks EXCEPT ![h] =
                 SendMessage([t EXCEPT !.writes = @ + 1], ReplySetupComplete, out)]

\* --------------------------------------------------------------------- NLU

\* WitMessageResponse: every list is empty or has one entry (the code reads
\* the first entry of a list and no other).
WitList(entry) == {<<>>, <<entry>>}

WitIntents == WitList([name |-> "spend"])

WitAccounts(role) == WitList([role |-> role, value |-> <<role>>])

WitAmounts == WitList([role |-> "amount_of_money", unit |-> "USD", value |-> 5])

WitDeeds == {None} \cup {Some(d) : d \in WitList([role |-> "deed", value |-> <<"coffee">>])}

WitFlows == WitList([value |-> <<"withdrawal">>])

WitMessageResponses(text) ==
    [text : {text},
     intents : WitIntents,
     entities : [destination : WitAccounts("destination"),
                 origin : WitAccounts("origin"),
                 amount_of_money : WitAmounts,
                 deed : WitDeeds],
     traits : [flow : WitFlows]]

\* wit_message_get(payload) followed by json::<WitMessageResponse>(): a
\* transport error, a body that does not decode, or a decoded response.
WitOutcomes(text, faults) ==
    {[ok |-> FALSE, err |-> e, body |-> None] :
        e \in IF faults THEN {"transport", "decode"} ELSE {}}
    \cup {[ok |-> TRUE, err |-> "", body |-> Some(r)] : r \in WitMessageResponses(text)}

\* f64::to_string of an amount.
to_string(value) == <<"f64", value>>

\* Utc::now().format("%Y-%m-%d")
Today == <<"today">>

\* Mutant of Extract: a response without a flow trait gives a withdrawal.
Extract_DefaultFlow(r) ==
    LET deeds == IF IsSome(r.entities.deed) THEN Unwrap(r.entities.deed) ELSE <<>>
        description == IF deeds # <<>> THEN deeds[1].value ELSE r.text
    IN
    IF r.entities.amount_of_money = <<>> THEN [err |-> "The amount of money is empty.", tx |-> None]
    ELSE IF r.entities.origin = <<>> THEN [err |-> "The account origin is empty.", tx |-> None]
    ELSE IF r.entities.destination = <<>>
    THEN [err |-> "The account destination is empty.", tx |-> None]
    ELSE [err |-> "",
          tx |-> Some([transact_type |-> IF r.traits.flow = <<>> THEN <<"withdrawal">>
                                         ELSE r.traits.flow[1].value,
                       amount |-> to_string(r.entities.amount_of_money[1].value),
                       description |-> description,
                       source_name |-> r.entities.origin[1].value,
                       destination_name |-> r.entities.destination[1].value,
                       date |-> Today])]

\* Mutant of Extract: the origin account is looked at before the amount.
Extract_OriginFirst(r) ==
    LET deeds == IF IsSome(r.entities.deed) THEN Unwrap(r.entities.deed) ELSE <<>>
        description == IF deeds # <<>> THEN deeds[1].value ELSE r.text
    IN
    IF r.entities.origin = <<>> THEN [err |-> "The account origin is empty.", tx |-> None]
    ELSE IF r.entities.amount_of_money = <<>>
    THEN [err |-> "The amount of money is empty.", tx |-> None]
    ELSE IF r.entities.destination = <<>>
    THEN [err |-> "The account destination is empty.", tx |-> None]
    ELSE IF r.traits.flow = <<>> THEN [err |-> "The transact type is empty.", tx |-> None]
    ELSE [err |-> "",
          tx |-> Some([transact_type |-> r.traits.flow[1].value,
                       amount |-> to_string(r.entities.amount_of_money[1].value),
                       description |-> description,
                       source_name |-> r.entities.origin[1].value,
                       destination_name |-> r.entities.destination[1].value,
                       date |-> Today])]

\* The transaction built from a response with at least one intent: the first
\* entry of each list, and the first missing one ends the extraction.
Extract(r) ==
    LET deeds == IF IsSome(r.entities.deed) THEN Unwrap(r.entities.deed) ELSE <<>>
        description == IF deeds # <<>> THEN deeds[1].value ELSE r.text
    IN
    IF r.entities.amount_of_money = <<>> THEN [err |-> "The amount of money is empty.", tx |-> None]
    ELSE IF r.entities.origin = <<>> THEN [err |-> "The account origin is empty.", tx |-> None]
    ELSE IF r.entities.destination = <<>>
    THEN [err |-> "The account destination is empty.", tx |-> None]
    ELSE IF r.traits.flow = <<>> THEN [err |-> "The transact type is empty.", tx |-> None]
    ELSE [err |-> "",
          tx |-> Some([transact_type |-> r.traits.flow[1].value,
                       amount |-> to_string(r.entities.amount_of_money[1].value),
                       description |-> description,
                       source_name |-> r.entities.origin[1].value,
                       destination_name |-> r.entities.destination[1].value,
                       date |-> Today])]

\* What a response is to the message parser: well formed, or the first of
\* the parse failures that applies.
Classify(r) ==
    IF r.intents = <<>> THEN "NoIntentDetected"
    ELSE IF r.entities.amount_of_money = <<>> THEN "MissingAmount"
    ELSE IF r.entities.origin = <<>> \/ r.entities.destination = <<>> THEN "MissingAccount"
    ELSE IF r.traits.flow = <<>> THEN "MissingFlow"
    ELSE "WellFormed"

ParseFailures == {"NoIntentDetected", "MissingAmount", "MissingAccount", "MissingFlow"}

\* transact up to create_transaction: the handler after the NLU call answered
\* `w` (and, for a response without intents, after the guidance reply
\* answered `out`).
transact(t0, w, out) ==
    LET t == [t0 EXCEPT !.wit = @ + 1,
                        !.nlu = IF w.ok THEN Classify(Unwrap(w.body)) ELSE "unavailable"]
    IN
    IF ~w.ok THEN Return(t, Err(w.err))
    ELSE IF Len(Unwrap(w.body).intents) > 0
    THEN LET c == Extract(Unwrap(w.body)) IN
         IF ~IsSome(c.tx) THEN Return(t, Err(c.err))
         ELSE [t EXCEPT !.pc = "create", !.tx = c.tx]
    ELSE SendMessage(t, ReplyGuidance, out)

\* transact: the NLU call and the extraction of the transaction.
TransactWit(h, w, out) ==
    /\ tasks[h].pc = "transact"
    /\ tasks' = [tasks EXCEPT ![h] = transact(tasks[h], w, out)]
    /\ UNCHANGED <<db, db0, chain>>

\* transact: UserClue::create_transaction on the copy read by cmd_transact,
\* and the confirmation.
TransactCreate(h, ledger, out) ==
    LET t == [tasks[h] EXCEPT !.ledger = @ + 1] IN
    /\ t.pc = "create"
    /\ tasks' = [tasks EXCEPT ![h] =
         IF ~ledger.ok THEN Return(t, Err(ledger.err))
         ELSE SendMessage(t, ReplyCreated, out)]
    /\ UNCHANGED <<db, db0, chain>>

\* ----------------------------------------------------------------- webhook

\* What reading the body of a non-200 reply as JSON can give.
BodyOutcomes == {"json", "not json", "unreadable"}

\* The handler returned an error before it reached its chat reply: a payload
\* check, the typing indicator, a store call, the NLU call, the extraction or
\* the ledger call failed.
Aborted(t) == IsSome(t.result) /\ ~Unwrap(t.result).ok /\ t.replies = <<>>

\* The handler has returned from process_message.
Returned(t) == t.pc \in {"respond", "done", "panicked"}

\* The history after an update: /start and /reset of one sender, answered one
\* right after the other, are kept; any other update clears it.
ChainAfter(c, t) ==
    IF Aborted(t) \/ ~IsSome(t.upd.text) \/ ~IsSome(t.upd.from) THEN NoChain
    ELSE IF Payload(t) = CmdStartText THEN [from |-> FromId(t), cmds |-> <<"/start">>]
    ELSE IF Payload(t) = CmdResetText
    THEN IF c.from = FromId(t) /\ c.cmds = <<"/start">>
         THEN [from |-> FromId(t), cmds |-> <<"/start", "/reset">>]
         ELSE [from |-> FromId(t), cmds |-> <<"/reset">>]
    ELSE NoChain

\* handle_telegram_message after process_message: the webhook response, and
\* send_report for an error.
Respond(h, body, report) ==
    LET t == tasks[h]
        res == Unwrap(t.result)
    IN
    /\ t.pc = "respond"
    /\ tasks' = [tasks EXCEPT ![h] =
         IF res.ok
         THEN IF res.status = 200 THEN [t EXCEPT !.pc = "done", !.response = 200]
              ELSE IF body = "unreadable" THEN [t EXCEPT !.pc = "panicked"]
              ELSE [t EXCEPT !.pc = "done", !.response = 500]
         ELSE IF ~report.ok THEN [t EXCEPT !.pc = "panicked", !.reports = @ + 1]
              ELSE [t EXCEPT !.pc = "done", !.response = 500, !.reports = @ + 1]]
    /\ UNCHANGED <<db, db0, chain>>

\* The connection of a finished handler is closed.
Retire(h) ==
    /\ tasks[h].pc \in {"done", "panicked"}
    /\ tasks' = [tasks EXCEPT ![h] = IdleTask]
    /\ chain' = ChainAfter(chain, tasks[h])
    /\ db0' = db
    /\ UNCHANGED db

\* ------------------------------------------------------------ specification

Step(h, faults) ==
    LET Posts == PostOutcomes(faults)
        Stores == StoreOutcomes(faults)
    IN
    \/ \E out \in Posts : ProcessMessage(h, out)
    \/ \E stored \in Stores, out \in Posts : CmdStart(h, stored, out)
    \/ \E stored \in Stores, out \in Posts : CmdStartInsert(h, stored, out)
    \/ \E stored \in Stores, out \in Posts : CmdReset(h, stored, out)
    \/ \E stored \in Stores, out \in Posts : CmdHelp(h, stored, out)
    \/ \E out \in Posts : CmdTest(h, out)
    \/ \E stored \in Stores, out \in Posts : CmdTransact(h, stored, out)
    \/ \E stored \in Stores : UploadUrlGet(h, stored)
    \/ \E stored \in Stores, out \in Posts : UploadUrlInsert(h, stored, out)
    \/ \E stored \in Stores : UploadPatGet(h, stored)
    \/ \E stored \in Stores, out \in Posts : UploadPatInsert(h, stored, out)
    \/ /\ tasks[h].pc = "transact"
       /\ \E w \in WitOutcomes(Payload(tasks[h]), faults), out \in Posts :
              TransactWit(h, w, out)
    \/ \E ledger \in Posts, out \in Posts : TransactCreate(h, ledger, out)
    \/ \E body \in BodyOutcomes, report \in Posts : Respond(h, body, report)
    \/ Retire(h)

\* One update at a time (the store contract's assumption): the next update is
\* taken when no handler is in flight.  Every store call and every outbound
\* call may fail.
ReceiveSeq(h, upd) ==
    /\ \A g \in Handlers : tasks[g].pc = "idle"
    /\ Receive(h, upd)

Next ==
    \E h \in Handlers :
        \/ \E upd \in Updates : ReceiveSeq(h, upd)
        \/ Step(h, TRUE)

Spec == Init /\ [][Next]_vars

\* Updates handled as concurrent tasks, as hyper runs them: updates of the
\* first sender that arrive together (the second is taken before the first
\* has passed its typing indicator), each store call one atomic step.  The
\* store calls and the outbound calls succeed.
ConcUpdates == {Update(TRUE, Some(x), Some(1)) : x \in Commands \cup SeqsUpTo(Chars, MaxLen)}

ReceiveConc(h, upd) ==
    /\ \A g \in Handlers : tasks[g].pc \in {"idle", "process"}
    /\ Receive(h, upd)

NextConc ==
    \E h \in Handlers :
        \/ \E upd \in ConcUpdates : ReceiveConc(h, upd)
        \/ Step(h, FALSE)

SpecConc == Init /\ [][NextConc]_vars

\* The store is a sled tree on disk (APP_SHARED_STORAGE_PATH) and the state
\* of a record is a String: the program can start with a record whose state
\* is none of the three values it writes.  Here the first sender has one.
StoredUnknown == UserClue(1, "unknown", <<"a">>, <<"a">>)

InitStored ==
    /\ db = insert(EmptyTree, user_id(1), StoredUnknown)
    /\ tasks = [h \in Handlers |-> IdleTask]
    /\ db0 = db
    /\ chain = NoChain

SpecStored == InitStored /\ [][Next]_vars

\* ------------------------------------------------------------------ claims

\* The update of a handler carries a message with a text and a sender.
WellFormedUpdate(t) == t.upd.message /\ IsSome(t.upd.text) /\ IsSome(t.upd.from)

\* The handler handles a text that is none of the four commands.
FreeText(t) == WellFormedUpdate(t) /\ Payload(t) \notin Commands

\* The handler handles the command `cmd`.
Command(t, cmd) == WellFormedUpdate(t) /\ Payload(t) = cmd

\* The conversation state of a key in a store.
StateOf(tree, key) == IF key \in DOMAIN tree THEN tree[key].state ELSE "NoRecord"

\* C1: every stored record whose state is ready has a non-empty ledger URL
\* and a non-empty access token.
C1_ReadyHasUrlAndToken ==
    \A k \in DOMAIN db :
        db[k].state = "ready" => db[k].firefly_url # <<>> /\ db[k].firefly_pat # <<>>

\* C2: a handler that has issued a ledger create-transaction call handles a
\* free text (no command), and the stored record of its sender is in state
\* ready: the record was ready when the update arrived, it is ready now, and
\* it is the record whose URL and token the call used.  So no update of a
\* sender in NoRecord, AwaitingUrl or AwaitingToken, and no command, issues one.
C2_LedgerOnlyForReadyFreeText ==
    \A h \in Handlers :
        LET t == tasks[h] IN
        t.ledger > 0 =>
            /\ FreeText(t)
            /\ StateOf(db0, get_user_id(t)) = "ready"
            /\ StateOf(db, get_user_id(t)) = "ready"
            /\ t.user = Some(db[get_user_id(t)])

\* C2 witness: a handler of a free text has issued a ledger call.
C2_Witness ==
    \E h \in Handlers :
        /\ tasks[h].ledger = 1
        /\ FreeText(tasks[h])
        /\ StateOf(db, get_user_id(tasks[h])) = "ready"

\* The record of a sender after one update with `text` is handled alone and
\* to its end, from the record `r` (process_message and the command it runs).
Handled(r, id, text) ==
    IF text = CmdStartText THEN (IF IsSome(r) THEN r ELSE Some(UserClueNew(id)))
    ELSE IF text = CmdResetText THEN None
    ELSE IF text \in {CmdHelpText, CmdTestText} THEN r
    ELSE IF ~IsSome(r) THEN None
    ELSE IF Unwrap(r).state = "upload-url"
    THEN Some([Unwrap(r) EXCEPT !.firefly_url = Trim(text), !.state = "upload-pat"])
    ELSE IF Unwrap(r).state = "upload-pat"
    THEN Some([Unwrap(r) EXCEPT !.firefly_pat = Trim(text), !.state = "ready"])
    ELSE r

\* Handled is what the handlers do: an update handled alone and not aborted
\* leaves the record Handled gives, and every other key as it was.
HandledAgrees ==
    \A h \in Handlers :
        LET t == tasks[h] IN
        Returned(t) /\ WellFormedUpdate(t) /\ ~Aborted(t) =>
            /\ get(db, get_user_id(t)) = Handled(get(db0, get_user_id(t)), FromId(t), Payload(t))
            /\ \A k \in (DOMAIN db \cup DOMAIN db0) \ {get_user_id(t)} :
                   get(db, k) = get(db0, k)

\* C3: when two updates of one sender are handled concurrently and both
\* handlers have returned, the stored record is the record that handling the
\* two updates one after the other, in one of the two orders, gives.
C3_ConcurrentUpdatesSerialize ==
    \A h, g \in Handlers :
        LET t == tasks[h]
            u == tasks[g]
            r0 == get(db0, get_user_id(t))
        IN
        (h # g /\ Returned(t) /\ Returned(u) /\ FromId(t) = FromId(u)) =>
            get(db, get_user_id(t)) \in
                {Handled(Handled(r0, FromId(t), Payload(t)), FromId(t), Payload(u)),
                 Handled(Handled(r0, FromId(t), Payload(u)), FromId(t), Payload(t))}

\* C4: for a sender with no stored record, a text that is none of the four
\* commands leaves the whole store as it was at every step of its handler,
\* and the handler, unless a failed call aborted it before its reply, answers
\* with the "Type /start" prompt and nothing else.
C4_NoRecordFreeText ==
    \A h \in Handlers :
        LET t == tasks[h] IN
        (t.pc # "idle" /\ FreeText(t) /\ StateOf(db0, get_user_id(t)) = "NoRecord") =>
            /\ db = db0
            /\ (Returned(t) /\ ~Aborted(t)) => t.replies = <<ReplyTypeStart>>

\* C4 witness: a free text of a sender without a record has been answered.
C4_Witness ==
    \E h \in Handlers :
        /\ Returned(tasks[h])
        /\ FreeText(tasks[h])
        /\ StateOf(db0, get_user_id(tasks[h])) = "NoRecord"
        /\ tasks[h].replies = <<ReplyTypeStart>>
        /\ get_user_id(tasks[h]) \notin DOMAIN db

\* C5: when /start and then /reset of a sender have been handled (each to its
\* reply, one right after the other), the sender has no record; and a /help
\* of that sender handled next is answered with the no-record help text.
C5_StartResetHelp ==
    \A h \in Handlers :
        LET t == tasks[h] IN
        (Returned(t) /\ ~Aborted(t)) =>
            /\ (Command(t, CmdResetText) /\ chain = [from |-> FromId(t), cmds |-> <<"/start">>])
                   => StateOf(db, get_user_id(t)) = "NoRecord"
            /\ (Command(t, CmdHelpText)
                /\ chain = [from |-> FromId(t), cmds |-> <<"/start", "/reset">>])
                   => t.replies = <<ReplyTypeStart>>

\* C5 witness: a /help right after /start and /reset has been answered.
C5_Witness ==
    \E h \in Handlers :
        /\ Returned(tasks[h])
        /\ Command(tasks[h], CmdHelpText)
        /\ chain = [from |-> FromId(tasks[h]), cmds |-> <<"/start", "/reset">>]
        /\ tasks[h].replies = <<ReplyTypeStart>>

\* Every character of `s` is white space.
AllSpace(s) == \A i \in DOMAIN s : IsSpace(s[i])

\* `u` is the text `s` without its leading and trailing white space: `s` is
\* white space, `u`, white space, and `u` neither starts nor ends with white
\* space.
IsTrimmed(u, s) ==
    /\ u # <<>> => ~IsSpace(u[1]) /\ ~IsSpace(u[Len(u)])
    /\ \E i \in 0..Len(s) : \E j \in i..Len(s) :
           /\ AllSpace(SubSeq(s, 1, i))
           /\ SubSeq(s, i + 1, j) = u
           /\ AllSpace(SubSeq(s, j + 1, Len(s)))

\* C6: for a sender in AwaitingUrl, a free text handled to its reply leaves
\* the stored ledger URL equal to the trimmed text and the record in
\* AwaitingToken.
C6_UrlStepOverwrites ==
    \A h \in Handlers :
        LET t == tasks[h]
            key == get_user_id(t)
        IN
        (Returned(t) /\ ~Aborted(t) /\ FreeText(t) /\ StateOf(db0, key) = "upload-url") =>
            /\ StateOf(db, key) = "upload-pat"
            /\ IsTrimmed(db[key].firefly_url, Payload(t))

\* C6 witness: a text with white space around a non-empty rest has been
\* stored as the URL.
C6_Witness ==
    \E h \in Handlers :
        LET t == tasks[h] IN
        /\ Returned(t)
        /\ FreeText(t)
        /\ StateOf(db0, get_user_id(t)) = "upload-url"
        /\ StateOf(db, get_user_id(t)) = "upload-pat"
        /\ db[get_user_id(t)].firefly_url # Payload(t)
        /\ db[get_user_id(t)].firefly_url # <<>>
        /\ IsTrimmed(db[get_user_id(t)].firefly_url, Payload(t))

\* C7: for a Ready sender, a free text that the NLU service answers with a
\* well-formed response makes exactly one ledger create call and, when that
\* call returns a response, exactly one "Transaction created" reply and no
\* other reply; a malformed one (no intent, or a missing amount, account or
\* flow) makes no ledger call and no such reply.
C7_OneCallOneConfirmation ==
    \A h \in Handlers :
        LET t == tasks[h] IN
        (Returned(t) /\ FreeText(t) /\ StateOf(db0, get_user_id(t)) = "ready") =>
            /\ t.nlu = "WellFormed" =>
                   /\ t.ledger = 1
                   /\ ~Aborted(t) => t.replies = <<ReplyCreated>>
            /\ t.nlu \in ParseFailures =>
                   /\ t.ledger = 0
                   /\ \A i \in DOMAIN t.replies : t.replies[i] # ReplyCreated

\* C7 witness: a well-formed message of a Ready sender has been confirmed.
C7_Witness ==
    \E h \in Handlers :
        LET t == tasks[h] IN
        /\ Returned(t)
        /\ FreeText(t)
        /\ StateOf(db0, get_user_id(t)) = "ready"
        /\ t.nlu = "WellFormed"
        /\ t.ledger = 1
        /\ t.replies = <<ReplyCreated>>

\* C8: for a Ready sender, every parse failure of the user-input kind is
\* recovered locally: the handler replies with the guidance text, the store
\* is unchanged, and the update is no system error (process_message returns
\* no error before the reply, and with the reply accepted there is no
\* operator report and no 500 response).
C8_ParseFailureRecovered ==
    \A h \in Handlers :
        LET t == tasks[h] IN
        (Returned(t) /\ FreeText(t) /\ StateOf(db0, get_user_id(t)) = "ready"
         /\ t.nlu \in ParseFailures) =>
            /\ ~Aborted(t)
            /\ t.replies = <<ReplyGuidance>>
            /\ db = db0
            /\ Unwrap(t.result) = Ok(200) => t.reports = 0 /\ t.response # 500

\* C9: /start handled to its reply: for a sender with no record, the store
\* gains the record UserClue::new gives (AwaitingUrl, empty URL and token)
\* and the reply is the prompt for the URL; for a sender with a record, the
\* store is unchanged and the reply is the already-started notice.
C9_StartCreatesOrKeeps ==
    \A h \in Handlers :
        LET t == tasks[h]
            key == get_user_id(t)
        IN
        (Returned(t) /\ ~Aborted(t) /\ Command(t, CmdStartText)) =>
            IF key \notin DOMAIN db0
            THEN /\ db = insert(db0, key, UserClue(FromId(t), "upload-url", <<>>, <<>>))
                 /\ t.replies = <<ReplyEnterUrl>>
            ELSE /\ db = db0
                 /\ t.replies = <<ReplyAlreadyStarted>>

\* C9 witness: /start of a Ready sender with a URL has been answered.
C9_Witness ==
    \E h \in Handlers :
        LET t == tasks[h] IN
        /\ Returned(t)
        /\ Command(t, CmdStartText)
        /\ StateOf(db0, get_user_id(t)) = "ready"
        /\ db0[get_user_id(t)].firefly_url # <<>>
        /\ t.replies = <<ReplyAlreadyStarted>>
        /\ db = db0

\* C10: /reset handled to its reply, in any state, leaves the sender without
\* a record (and every other key as it was) and replies with the
\* confirmation; and /start handled right after a /reset of the same sender
\* leaves a fresh record: AwaitingUrl, empty URL, empty token.
C10_ResetThenStartIsFresh ==
    \A h \in Handlers :
        LET t == tasks[h]
            key == get_user_id(t)
        IN
        (Returned(t) /\ ~Aborted(t)) =>
            /\ Command(t, CmdResetText) =>
                   /\ db = remove(db0, key)
                   /\ t.replies = <<ReplyResetComplete>>
            /\ (Command(t, CmdStartText) /\ chain.from = FromId(t)
                /\ chain.cmds # <<>> /\ chain.cmds[Len(chain.cmds)] = "/reset") =>
                   /\ key \in DOMAIN db
                   /\ db[key] = UserClue(FromId(t), "upload-url", <<>>, <<>>)

\* C10 witness: /start right after /reset has been answered.
C10_Witness ==
    \E h \in Handlers :
        LET t == tasks[h] IN
        /\ Returned(t)
        /\ Command(t, CmdStartText)
        /\ chain = [from |-> FromId(t), cmds |-> <<"/reset">>]
        /\ t.replies = <<ReplyEnterUrl>>
        /\ StateOf(db, get_user_id(t)) = "upload-url"

\* The places of a handler inside cmd_transact's steps (upload_url,
\* upload_pat, transact), which only a free text reaches.
FreeTextPcs ==
    {"upload_url", "upload_url_insert", "upload_pat", "upload_pat_insert", "transact", "create"}

\* The replies each command can give.
CommandReplies(text) ==
    IF text = CmdStartText THEN {ReplyAlreadyStarted, ReplyEnterUrl}
    ELSE IF text = CmdResetText THEN {ReplyResetComplete}
    ELSE IF text = CmdHelpText THEN {ReplyTypeStart, ReplyUsage}
    ELSE {ReplyAck}

\* C11: a text is handled as a command exactly when it is one of the four
\* command words.  A handler of a command word, in every conversation state,
\* never is at a step of the free-text handling, makes no NLU or ledger call,
\* leaves every stored record as it was or removes it or adds a fresh one (so
\* the word is never stored as URL or token), and its reply is one of that
\* command's replies.  A handler of any other text (other letter case, white
\* space around a command word included) never is at a step of a command, and
\* when it reaches its reply it has done what the sender's state asks of a
\* free text.
C11_ExactCommandMatch ==
    \A h \in Handlers :
        LET t == tasks[h]
            key == get_user_id(t)
            before == StateOf(db0, key)
        IN
        (WellFormedUpdate(t) /\ t.pc \notin {"idle", "process", "dispatch"}) =>
            /\ Payload(t) \in Commands =>
                   /\ t.pc \notin FreeTextPcs
                   /\ t.wit = 0 /\ t.ledger = 0
                   /\ \A k \in DOMAIN db :
                          db[k] = IF k \in DOMAIN db0 THEN db0[k] ELSE UserClueNew(FromId(t))
                   /\ (Returned(t) /\ ~Aborted(t)) =>
                          Len(t.replies) = 1 /\ t.replies[1] \in CommandReplies(Payload(t))
            /\ Payload(t) \notin Commands =>
                   /\ t.pc # "start_insert"
                   /\ (Returned(t) /\ ~Aborted(t)) =>
                          /\ before = "NoRecord" => t.replies = <<ReplyTypeStart>> /\ db = db0
                          /\ before = "upload-url" =>
                                 /\ StateOf(db, key) = "upload-pat"
                                 /\ t.replies = <<ReplyUrlSaved(db[key].firefly_url)>>
                          /\ before = "upload-pat" =>
                                 /\ StateOf(db, key) = "ready"
                                 /\ t.replies = <<ReplySetupComplete>>
                          /\ before = "ready" =>
                                 /\ t.replies \in {<<ReplyCreated>>, <<ReplyGuidance>>}
                                 /\ db = db0

\* C11 witness: a text near a command ("/START", "/start ") of a sender in
\* AwaitingUrl has been handled as a free text: its trimmed form is stored
\* as the URL.
C11_Witness ==
    \E h \in Handlers :
        LET t == tasks[h] IN
        /\ Returned(t)
        /\ WellFormedUpdate(t)
        /\ Payload(t) \in NearCommands
        /\ StateOf(db0, get_user_id(t)) = "upload-url"
        /\ StateOf(db, get_user_id(t)) = "upload-pat"
        /\ db[get_user_id(t)].firefly_url = Trim(Payload(t))

\* process_message of the handler completed successfully: it returned the
\* messaging platform's 200 answer to the chat reply.
Succeeded(t) == t.result = Some(Ok(200))

\* C12: when a handler has given its webhook response, the response is 200
\* exactly when processing completed successfully, and every processing
\* failure (a store error, an unknown state, a failed outbound call) has the
\* response 500 and exactly one report to the operator-error channel.
C12_ResponseReflectsOutcome ==
    \A h \in Handlers :
        LET t == tasks[h] IN
        t.pc = "done" =>
            /\ t.response = 200 <=> Succeeded(t)
            /\ ~Succeeded(t) => t.response = 500 /\ t.reports = 1

\* C13: a handler ends in a panic only when the report to the operator-error
\* channel failed: process_message had returned an error and send_report was
\* called.  No failed or unreadable answer of the messaging platform to the
\* chat reply ends in a panic.
C13_PanicOnlyFromReport ==
    \A h \in Handlers :
        LET t == tasks[h] IN
        t.pc = "panicked" => ~Unwrap(t.result).ok /\ t.reports = 1

\* The answers of the ledger that are a failure of the create-transaction
\* call: a transport failure, or an error response.
LedgerFailures == PostOutcomes(TRUE) \ {Ok(200)}

\* C14: every step in which the ledger create-transaction call fails, by a
\* transport failure or by an error response of the ledger, ends the
\* handler's process_message with an error before any chat reply: no
\* "Transaction created" reply is sent, and the update is a reported failure.
C14_LedgerFailurePropagates ==
    [][\A h \in Handlers : \A ledger \in LedgerFailures : \A out \in PostOutcomes(TRUE) :
           TransactCreate(h, ledger, out) =>
               LET u == tasks'[h] IN
               /\ Aborted(u)
               /\ \A i \in DOMAIN u.replies : u.replies[i] # ReplyCreated]_vars

KnownStates == {"upload-url", "upload-pat", "ready"}

\* C15: a handler of a free text whose sender's stored record has a state
\* other than upload-url, upload-pat and ready never is at a step of the URL
\* step, the token step or the transaction; it leaves the store as it was,
\* sends no chat reply and makes no NLU or ledger call; and it returns an
\* error, which is "Unknown user state" unless the typing indicator or the
\* read of the record failed first.
C15_UnknownStateAborts ==
    \A h \in Handlers :
        LET t == tasks[h]
            key == get_user_id(t)
        IN
        (t.pc # "idle" /\ FreeText(t) /\ StateOf(db0, key) \notin KnownStates \cup {"NoRecord"}) =>
            /\ t.pc \notin FreeTextPcs
            /\ db = db0
            /\ t.writes = 0 /\ t.replies = <<>> /\ t.wit = 0 /\ t.ledger = 0
            /\ Returned(t) =>
                   /\ Aborted(t)
                   /\ Unwrap(t.result).err \in {"Unknown user state", "store", "transport"}

\* C15 witness: a free text of a sender with a record in an unknown state has
\* ended with the UnknownState error, the record as it was.
C15_Witness ==
    \E h \in Handlers :
        LET t == tasks[h] IN
        /\ Returned(t)
        /\ FreeText(t)
        /\ get(db0, get_user_id(t)) = Some(StoredUnknown)
        /\ get(db, get_user_id(t)) = Some(StoredUnknown)
        /\ t.result = Some(Err("Unknown user state"))

\* A store call of the handler failed: process_message returned the store's
\* error.
StoreFailed(t) == t.result = Some(Err("store"))

\* C16: when a store call (contains_key, get, insert, remove) of a handler
\* has failed, the handler has returned with that error, the whole store is
\* what it was when the update arrived (no write of the handler took place),
\* and the handler has sent no chat reply and made no NLU or ledger call.
C16_StoreFailureAborts ==
    \A h \in Handlers :
        LET t == tasks[h] IN
        StoreFailed(t) =>
            /\ Returned(t)
            /\ db = db0
            /\ t.writes = 0
            /\ t.replies = <<>>
            /\ t.wit = 0 /\ t.ledger = 0

\* C16 witness: the insert of upload_url failed after its get had succeeded
\* (the handler holds the changed copy), and the stored record is the one
\* from before the update.
C16_Witness ==
    \E h \in Handlers :
        LET t == tasks[h] IN
        /\ StoreFailed(t)
        /\ FreeText(t)
        /\ StateOf(db0, get_user_id(t)) = "upload-url"
        /\ IsSome(t.user)
        /\ Unwrap(t.user).state = "upload-pat"
        /\ StateOf(db, get_user_id(t)) = "upload-url"

\* The answers of the messaging platform that are a failure of the typing
\* indicator: a transport failure, or an error response.
TypingFailures == PostOutcomes(TRUE) \ {Ok(200)}

\* The answers of the NLU service that are a failure of the NLU request.
WitFailures(text) == {w \in WitOutcomes(text, TRUE) : ~w.ok}

\* The step from `t` to `u` ended the handler's update: process_message
\* returned an error, with no write, no ledger call and no chat reply made
\* in the step.
Terminal(t, u) ==
    /\ Returned(u)
    /\ Aborted(u)
    /\ u.writes = t.writes
    /\ u.replies = t.replies

\* C17: within one update the typing indicator, the NLU request, the ledger
\* create call and the chat reply are each made at most once; a step in which
\* the typing indicator, the NLU request or the ledger create call fails ends
\* the update with an error, with no store write, no (further) ledger call
\* and no chat reply in it; and a handler that has returned makes no later
\* call or write.
C17_NoRetryFailureTerminal ==
    [][\A h \in Handlers :
           LET t == tasks[h]
               u == tasks'[h]
           IN
           /\ u.typing <= 1 /\ u.wit <= 1 /\ u.ledger <= 1 /\ Len(u.replies) <= 1
           /\ \A out \in TypingFailures :
                  (ProcessMessage(h, out) /\ u.typing = t.typing + 1) =>
                      Terminal(t, u) /\ u.ledger = t.ledger /\ db' = db
           /\ t.pc = "transact" =>
                  \A w \in WitFailures(Payload(t)) : \A out \in PostOutcomes(TRUE) :
                      TransactWit(h, w, out) =>
                          Terminal(t, u) /\ u.ledger = t.ledger /\ db' = db
           /\ \A ledger \in LedgerFailures : \A out \in PostOutcomes(TRUE) :
                  TransactCreate(h, ledger, out) => Terminal(t, u) /\ db' = db
           /\ (Returned(t) /\ u.pc # "idle") =>
                  /\ u.typing = t.typing /\ u.wit = t.wit /\ u.ledger = t.ledger
                  /\ u.writes = t.writes /\ u.replies = t.replies
                  /\ db' = db]_vars

\* C18: for a sender in AwaitingToken, a free text handled to its reply
\* leaves the record Ready with the trimmed text as its token and with the
\* URL and the user id it had, and the reply is setup-complete; for a sender
\* in AwaitingUrl, a free text handled to its reply leaves the token and the
\* user id of the record as they were.  Every other key is as it was.
C18_TokenStepFrame ==
    \A h \in Handlers :
        LET t == tasks[h]
            key == get_user_id(t)
        IN
        (Returned(t) /\ ~Aborted(t) /\ FreeText(t)) =>
            /\ StateOf(db0, key) = "upload-pat" =>
                   /\ StateOf(db, key) = "ready"
                   /\ IsTrimmed(db[key].firefly_pat, Payload(t))
                   /\ db[key].firefly_url = db0[key].firefly_url
                   /\ db[key].id = db0[key].id
                   /\ t.replies = <<ReplySetupComplete>>
            /\ StateOf(db0, key) = "upload-url" =>
                   /\ StateOf(db, key) = "upload-pat"
                   /\ db[key].firefly_pat = db0[key].firefly_pat
                   /\ db[key].id = db0[key].id
            /\ StateOf(db0, key) \in {"upload-url", "upload-pat"} =>
                   \A k \in (DOMAIN db \cup DOMAIN db0) \ {key} : get(db, k) = get(db0, k)

\* C18 witness: a sender in AwaitingToken with a non-empty URL has sent a
\* text with white space around a non-empty rest, and the record is Ready
\* with that URL and the rest as token.
C18_Witness ==
    \E h \in Handlers :
        LET t == tasks[h]
            key == get_user_id(t)
        IN
        /\ Returned(t)
        /\ FreeText(t)
        /\ StateOf(db0, key) = "upload-pat"
        /\ db0[key].firefly_url # <<>>
        /\ StateOf(db, key) = "ready"
        /\ db[key].firefly_url = db0[key].firefly_url
        /\ db[key].firefly_pat # <<>>
        /\ db[key].firefly_pat # Payload(t)
        /\ t.replies = <<ReplySetupComplete>>

\* C19: a handler of /help or /test leaves the whole store as it was at every
\* step, in every state of its sender, and makes no write, NLU call or ledger
\* call.  /help handled to its reply answers with the setup instructions
\* exactly when the sender has no record, and with the usage instructions
\* otherwise.  /test handled to its reply answers with the acknowledgement
\* and nothing else, and never ends with a store error (it makes no store
\* call).
C19_HelpAndTestReadOnly ==
    \A h \in Handlers :
        LET t == tasks[h]
            key == get_user_id(t)
        IN
        (t.pc # "idle" /\ (Command(t, CmdHelpText) \/ Command(t, CmdTestText))) =>
            /\ db = db0
            /\ t.writes = 0 /\ t.wit = 0 /\ t.ledger = 0
            /\ (Command(t, CmdHelpText) /\ Returned(t) /\ ~Aborted(t)) =>
                   /\ key \notin DOMAIN db0 <=> t.replies = <<ReplyTypeStart>>
                   /\ key \in DOMAIN db0 <=> t.replies = <<ReplyUsage>>
            /\ (Command(t, CmdTestText) /\ Returned(t)) =>
                   /\ ~StoreFailed(t)
                   /\ ~Aborted(t) => t.replies = <<ReplyAck>>

\* C19 witness: /help of a sender in AwaitingUrl has been answered with the
\* usage instructions, the store as it was.
C19_Witness ==
    \E h \in Handlers :
        LET t == tasks[h] IN
        /\ Returned(t)
        /\ Command(t, CmdHelpText)
        /\ StateOf(db0, get_user_id(t)) = "upload-url"
        /\ t.replies = <<ReplyUsage>>
        /\ db = db0

\* C19 witness for /test: /test of a Ready sender has been acknowledged, the
\* store as it was.
C19_TestAcknowledged ==
    \E h \in Handlers :
        LET t == tasks[h] IN
        /\ Returned(t)
        /\ Command(t, CmdTestText)
        /\ StateOf(db0, get_user_id(t)) = "ready"
        /\ t.replies = <<ReplyAck>>
        /\ db = db0

\* What transact made of the NLU response, read from the handler right after
\* the step: the guidance reply, one of the four extraction errors, or the
\* transaction to create.
ParseOutcome(u) ==
    IF u.pc = "create" /\ IsSome(u.tx) THEN "WellFormed"
    ELSE IF u.replies = <<ReplyGuidance>> THEN "NoIntentDetected"
    ELSE IF u.result = Some(Err("The amount of money is empty.")) THEN "MissingAmount"
    ELSE IF u.result = Some(Err("The account origin is empty.")) THEN "MissingOrigin"
    ELSE IF u.result = Some(Err("The account destination is empty.")) THEN "MissingDestination"
    ELSE IF u.result = Some(Err("The transact type is empty.")) THEN "MissingFlow"
    ELSE "other"

\* The failure the fixed order gives for a response: zero intents first,
\* then the amount, the origin, the destination and the flow.
FirstFailure(r) ==
    IF r.intents = <<>> THEN "NoIntentDetected"
    ELSE IF r.entities.amount_of_money = <<>> THEN "MissingAmount"
    ELSE IF r.entities.origin = <<>> THEN "MissingOrigin"
    ELSE IF r.entities.destination = <<>> THEN "MissingDestination"
    ELSE IF r.traits.flow = <<>> THEN "MissingFlow"
    ELSE "WellFormed"

\* C20: whenever a handler is about to make its NLU request, every decoded
\* response the service can give is made into the first failure in the fixed
\* order: a response with zero intents is NoIntentDetected whatever entities
\* it carries; otherwise one with no amount is MissingAmount, whatever
\* accounts and flow it carries; then the origin, the destination and the
\* flow are looked at in that order; and a response with all of them gives
\* the transaction.
C20_ClassificationOrder ==
    \A h \in Handlers :
        tasks[h].pc = "transact" =>
            \A w \in WitOutcomes(Payload(tasks[h]), TRUE) : \A out \in PostOutcomes(TRUE) :
                w.ok => ParseOutcome(transact(tasks[h], w, out)) = FirstFailure(Unwrap(w.body))

\* C20 witness: a response with an intent and no amount has ended transact
\* with the amount error, before any ledger call.
C20_Witness ==
    \E h \in Handlers :
        LET t == tasks[h] IN
        /\ Returned(t)
        /\ FreeText(t)
        /\ t.wit = 1
        /\ t.nlu = "MissingAmount"
        /\ ParseOutcome(t) = "MissingAmount"
        /\ t.ledger = 0

\* C21: starting from the empty store, after any sequence of updates the
\* state of every stored record, and of every copy a handler is about to
\* write, is upload-url, upload-pat or ready; and no handler has returned the
\* UnknownState error.
C21_StatesAreKnown ==
    /\ \A k \in DOMAIN db : db[k].state \in KnownStates
    /\ \A h \in Handlers :
           LET t == tasks[h] IN
           /\ IsSome(t.user) => Unwrap(t.user).state \in KnownStates
           /\ t.result # Some(Err("Unknown user state"))

\* C21 witness: one sender is Ready, the other in AwaitingUrl, and a free
\* text of the Ready sender has gone through cmd_transact's match on the
\* state.
C21_Witness ==
    \E h \in Handlers :
        LET t == tasks[h] IN
        /\ FreeText(t)
        /\ t.wit = 1
        /\ StateOf(db, get_user_id(t)) = "ready"
        /\ \E k \in DOMAIN db : db[k].state = "upload-url"

\* The place of a conversation state in the onboarding order.
Rank(state) ==
    IF state = "NoRecord" THEN 0
    ELSE IF state = "upload-url" THEN 1
    ELSE IF state = "upload-pat" THEN 2
    ELSE 3

\* The step is the remove of a /reset.
ResetStep ==
    \E h \in Handlers :
        /\ tasks[h].pc = "dispatch"
        /\ Payload(tasks[h]) = CmdResetText
        /\ tasks'[h].writes = tasks[h].writes + 1

\* C22: in every step that is not the remove of a /reset, also with the
\* updates of a sender handled concurrently, the onboarding state of every
\* key moves forward or stays (NoRecord, AwaitingUrl, AwaitingToken, Ready),
\* and a Ready record stays Ready with the same URL and token.
C22_OnboardingMovesForward ==
    [][~ResetStep =>
           \A k \in DOMAIN db \cup DOMAIN db' :
               /\ Rank(StateOf(db', k)) >= Rank(StateOf(db, k))
               /\ StateOf(db, k) = "ready" => db'[k] = db[k]]_vars

\* C23: whenever a handler has answered its update with a 500 webhook
\* response, the whole store is what it was when the update arrived: no
\* record change of /start, /reset, the URL step or the token step stays in
\* place when the chat reply after it failed.
C23_ErrorLeavesRecord ==
    \A h \in Handlers :
        LET t == tasks[h] IN
        (t.pc = "done" /\ t.response = 500) => db = db0

\* The error process_message returns for an update that lacks a part.
RejectionOf(upd) ==
    IF ~upd.message THEN Err("No message")
    ELSE IF ~IsSome(upd.text) THEN Err("Empty text payload")
    ELSE Err("No user from included in payload")

\* C24: a handler of an update without a message, without a text or without
\* a sender, once past process_message, has sent no typing indicator and no
\* chat reply, has made no NLU or ledger call and no store write, and has
\* returned the error of the missing part (so no store call, which could
\* have failed first, was made), the store as it was.  The update ends as a
\* failure: one report to the operator-error channel, and the 500 response
\* when the handler has responded (a failed report ends in a panic, the one
\* crash the error taxonomy allows, with no response).
C24_MalformedRejectedFirst ==
    \A h \in Handlers :
        LET t == tasks[h] IN
        (t.pc \notin {"idle", "process"} /\ ~WellFormedUpdate(t)) =>
            /\ Returned(t)
            /\ t.result = Some(RejectionOf(t.upd))
            /\ t.typing = 0 /\ t.replies = <<>>
            /\ t.wit = 0 /\ t.ledger = 0 /\ t.writes = 0
            /\ db = db0
            /\ t.pc = "done" => t.response = 500 /\ t.reports = 1
            /\ t.pc = "panicked" => t.response = 0 /\ t.reports = 1

\* C24 witness: an update with a text and no sender, arriving while a record
\* is stored, has been answered with 500 after one report.
C24_Witness ==
    \E h \in Handlers :
        LET t == tasks[h] IN
        /\ t.pc = "done"
        /\ t.upd.message /\ IsSome(t.upd.text) /\ ~IsSome(t.upd.from)
        /\ t.typing = 0
        /\ t.response = 500
        /\ t.reports = 1
        /\ DOMAIN db # {}

====
